---- MODULE Spec2Model ----
(***************************************************************************)
(* Model of the word generation engine of glotblocks (ConlangEngine,       *)
(* conlang_engine.py): aggregation of tags into phoneme pools, shape       *)
(* weights, rules and spelling groups; shape choice and expansion; slot    *)
(* filling; constraint rejection; orthography; generate / generate_suffix. *)
(*                                                                         *)
(* Representation.  A Python str that the engine scans character by        *)
(* character (a word, a shape template, a pattern) is a sequence of        *)
(* one-character strings.  Names (tags, rules, groups, phoneme classes,    *)
(* phonemes, slot symbols) are plain strings; phonemes are one character   *)
(* long.  Python's None is NoneVal.  Weights are floats: an integer below   *)
(* Huge stands for itself, Huge + d for 2.0**53 + d (see FloatAdd).        *)
(***************************************************************************)
EXTENDS Integers, Sequences, FiniteSets, TLC

\* ------------------------------------------------------------------ bounds

\* Calls made on one engine instance.
MaxCalls == 3
\* Largest value of the attempts argument tried.
MaxAttempts == 2
\* The random unit interval [0,1) is cut into RandRes equal cells; a draw is
\* the index of a cell.
RandRes == 2
\* Positions of a seeded random stream that are modelled.
MaxTape == 10
\* Calls of a seeded run that are logged and replayed.
MaxRunCalls == 2
\* Direct calls of _aggregate on one engine instance.
MaxAggregations == 2

\* ------------------------------------------------------- Python values

NoneVal == <<"None">>
EmptyDict == [x \in {} |-> 0]

DictGet(d, k) == IF k \in DOMAIN d THEN d[k] ELSE NoneVal
DictGetOr(d, k, dflt) == IF k \in DOMAIN d THEN d[k] ELSE dflt
DictSet(d, k, v) == [x \in (DOMAIN d) \cup {k} |-> IF x = k THEN v ELSE d[x]]

\* bool(v) is False for None and for the empty string.
Falsy(v) == v = NoneVal \/ v = <<>>

\* `v == False` for a value that is a str or None: never equal.
EqualsFalse(v) == FALSE

Max(a, b) == IF a >= b THEN a ELSE b

CodePoint(c) ==
    CASE c = "(" -> 40 [] c = ")" -> 41
      [] c = "C" -> 67 [] c = "V" -> 86 [] c = "X" -> 88
      [] c = "a" -> 97 [] c = "c" -> 99 [] c = "k" -> 107
      [] c = "t" -> 116 [] c = "x" -> 120
      [] OTHER -> 0

RECURSIVE StrLess(_, _)
StrLess(s, t) ==
    IF s = <<>> THEN t # <<>>
    ELSE IF t = <<>> THEN FALSE
    ELSE IF Head(s) = Head(t) THEN StrLess(Tail(s), Tail(t))
    ELSE CodePoint(Head(s)) < CodePoint(Head(t))

\* sorted() of a set of one-character strings.
RECURSIVE SortedChars(_)
SortedChars(S) ==
    IF S = {} THEN <<>>
    ELSE LET m == CHOOSE x \in S : \A y \in S : CodePoint(x) <= CodePoint(y)
         IN <<m>> \o SortedChars(S \ {m})

\* sorted() of a set of strings.
RECURSIVE SortedStrs(_)
SortedStrs(S) ==
    IF S = {} THEN <<>>
    ELSE LET m == CHOOSE x \in S : \A y \in S : x = y \/ StrLess(x, y)
         IN <<m>> \o SortedStrs(S \ {m})

RECURSIVE SumSeq(_)
SumSeq(w) == IF w = <<>> THEN 0 ELSE Head(w) + SumSeq(Tail(w))

Range(s) == {s[i] : i \in DOMAIN s}

\* ------------------------------------------------------------ the state

VARIABLES
    file,           \* the configuration file at json_path
    engine,         \* the constructed engine's configuration sections
    other,          \* the instance of the process that is not running
    lexicon,        \* self.lexicon: generated word -> itself
    missing_tags,   \* self.missing_tags: tag -> count
    seeded,         \* whether the engine was constructed with a seed
    tape,           \* the outcomes of the seeded random stream drawn so far
    pos,            \* position of the seeded random stream
    ncalls,         \* calls made on this engine instance
    pc,             \* position inside the running call, "idle" between calls
    call,           \* the running (or last) call and its arguments
    agg,            \* what _aggregate returned to the running call
    phase,          \* 1: lines 288-307, 2: lines 309-313, 3: generate_suffix
    iter,           \* iterations of the attempt loop begun by the call
    draws,          \* random draws consumed by the call
    shape,          \* the local `shape`
    todo,           \* what re.sub has still to scan of the chosen template
    out,            \* the local `out` of _fill_shape
    word,           \* the local `word` (or `suffix`)
    raw,            \* the fill from which the returned value was made
    result,         \* how the last call ended
    log,            \* the calls completed in this run, with their results
    prevLog,        \* the log of the previous run
    hashseed,       \* the process's string hash randomization
    lex0,           \* self.lexicon when the call began
    missing0,       \* self.missing_tags when the call began
    accepted        \* whether a candidate of the call passed line 297

vars == <<file, engine, other, lexicon, missing_tags, seeded, tape, pos, ncalls,
          pc, call, agg,
          phase, iter, draws, shape, todo, out, word, raw, result, log,
          prevLog, hashseed, lex0, missing0, accepted>>

\* --------------------------------------------------------------- floats
\* Weights are Python floats.  An integer below Huge stands for itself: sums
\* and products of such values are exact as long as they stay below Huge.
\* Huge + d stands for 2.0**53 + d, the range where doubles are 2 apart.

Huge == 2^20

\* the double nearest to 2.0**53 + d (0 <= d), ties to the even mantissa
RoundAboveHuge(d) ==
    IF d % 2 = 0 THEN d ELSE IF (d + 1) % 4 = 0 THEN d + 1 ELSE d - 1

\* a + b, for at most one of a, b at or above Huge
FloatAdd(a, b) ==
    IF a + b < Huge THEN a + b ELSE Huge + RoundAboveHuge(a + b - Huge)

\* a * b, for a below Huge or b one of -1, 0, 1
FloatMul(a, b) ==
    IF a < Huge THEN a * b
    ELSE CASE b = 1 -> a [] b = 0 -> 0 [] b = -1 -> 0 - a

\* ------------------------------------------------------ the configuration

\* The JSON document of the configuration file.
config ==
    [definitions |->
        [C |-> <<"t", "k">>, V |-> <<"a">>, K |-> <<"k">>,
         morphology |->
            [plural |-> [anchor |-> "fire", shape |-> <<"C", "V">>],
             past   |-> [anchor |-> "noun", shape |-> <<"X">>],
             agent  |-> [anchor |-> "noun", shape |-> <<"C", "V">>],
             par    |-> [anchor |-> "noun", shape |-> <<"(", "V", ")">>],
             wildp  |-> [anchor |-> "wild", shape |-> <<"(", "C", ")">>],
             bare   |-> [shape |-> <<"V">>],
             voc    |-> [anchor |-> "vow"],
             nil    |-> EmptyDict]],
     \* A pattern: the literal it searches for, and whether re.compile
     \* accepts it.
     constraints |->
        [no_ta  |-> << [pattern |-> <<"t", "a">>, compiles |-> TRUE] >>,
         no_a   |-> << [pattern |-> <<"(">>, compiles |-> FALSE],
                       [pattern |-> <<"a">>, compiles |-> TRUE] >>,
         broken |-> << [pattern |-> <<"(">>, compiles |-> FALSE] >>],
     orthography |->
        [default |-> << [from |-> <<"k">>, to |-> <<"c">>] >>,
         alt     |-> << [from |-> <<"t">>, to |-> <<"d">>] >>,
         chain   |-> << [from |-> <<"k">>, to |-> <<"c">>],
                        [from |-> <<"c">>, to |-> <<"a">>] >>,
         grow    |-> << [from |-> <<"a">>, to |-> <<"a", "a">>],
                        [from |-> <<"a", "a", "a">>, to |-> <<"t">>] >>,
         blank   |-> << [from |-> <<>>, to |-> <<"k">>] >>,
         empty   |-> << >>],
     ontology |->
        [noun   |-> [weight |-> 1,
                     add_shapes |-> << <<"(", "C", ")", "V">> >>,
                     add_rules |-> <<"no_ta", "broken", "absent">>],
         fire   |-> [weight |-> 2, add_sounds |-> <<"k", "V">>,
                     add_spelling |-> <<"default">>],
         odd    |-> [weight |-> 1, add_shapes |-> << <<"X">> >>],
         strict |-> [weight |-> 1, add_shapes |-> << <<"V">> >>,
                     add_rules |-> <<"no_a">>],
         verb   |-> [add_shapes |-> << <<"C", "V">> >>,
                     add_sounds |-> <<"C", "V">>],
         vow    |-> [weight |-> 2, add_sounds |-> <<"V">>],
         wild   |-> [add_sounds |-> <<"x", "k">>,
                     add_shapes |-> << <<"(", "C", ")", "V">> >>,
                     add_rules |-> <<"no_a", "no_ta">>,
                     add_spelling |-> <<"alt">>],
         zero   |-> [weight |-> 0, add_sounds |-> <<"C", "x">>,
                     add_shapes |-> << <<"X">> >>,
                     add_rules |-> <<"no_a">>,
                     add_spelling |-> <<"alt">>],
         huge   |-> [weight |-> Huge,
                     add_shapes |-> << <<"(", "C", ")", "V">> >>]]]

Sections == {"definitions", "constraints", "orthography", "ontology"}

\* Variant: the morphology entry stays in definitions.
InitEngineKeepsMorphology(document) ==
    LET defs == DictGetOr(document, "definitions", EmptyDict)
    IN [constructed |-> TRUE,
        definitions |-> defs,
        constraints_raw |-> DictGetOr(document, "constraints", EmptyDict),
        orthography |-> DictGetOr(document, "orthography", EmptyDict),
        ontology |-> DictGetOr(document, "ontology", EmptyDict),
        morphology |-> DictGetOr(defs, "morphology", EmptyDict)]

\* The sections __init__ reads from the loaded document; morphology is
\* popped from definitions.
InitEngine(document) ==
    LET defs == DictGetOr(document, "definitions", EmptyDict)
    IN [constructed |-> TRUE,
        definitions |-> [k \in (DOMAIN defs) \ {"morphology"} |-> defs[k]],
        constraints_raw |-> DictGetOr(document, "constraints", EmptyDict),
        orthography |-> DictGetOr(document, "orthography", EmptyDict),
        ontology |-> DictGetOr(document, "ontology", EmptyDict),
        morphology |-> DictGetOr(defs, "morphology", EmptyDict)]

\* No second instance: the process has constructed one engine at most.  A
\* second instance has its own lexicon and missing-tag counts; seed is the
\* seed the second instance was constructed with, pos is where the instance
\* that is not running left the random stream.
NoOther ==
    [id |-> 2, constructed |-> FALSE, lexicon |-> EmptyDict,
     missing_tags |-> EmptyDict, seed |-> "None", pos |-> 0]

\* No engine: the constructor has not returned.
NoEngine ==
    [constructed |-> FALSE, definitions |-> EmptyDict,
     constraints_raw |-> EmptyDict, orthography |-> EmptyDict,
     ontology |-> EmptyDict, morphology |-> EmptyDict]

definitions == engine.definitions
morphology == engine.morphology
constraints_raw == engine.constraints_raw
orthography == engine.orthography
ontology == engine.ontology

\* phoneme -> the definition classes it belongs to
phoneme_to_defs(phon) ==
    {k \in DOMAIN definitions : phon \in Range(definitions[k])}

\* The compiled constraints: per rule the patterns that compile; a rule with
\* none is left out.
CompiledOf(spec_list) ==
    SelectSeq(spec_list, LAMBDA item : item.pattern # <<>> /\ item.compiles)

constraints ==
    [name \in {n \in DOMAIN constraints_raw :
                  CompiledOf(constraints_raw[n]) # <<>>}
        |-> CompiledOf(constraints_raw[name])]

\* ------------------------------------------------------------ tag inputs

\* A tag input: a list of tag names, a dict from tag name to multiplier
\* (keys in insertion order, with their multipliers beside them), or a value
\* of another type.
ListInput(tags) == [kind |-> "list", tags |-> tags, mults |-> <<>>]
DictInput(tags, mults) == [kind |-> "dict", tags |-> tags, mults |-> mults]
OtherInput == [kind |-> "other", tags |-> <<>>, mults |-> <<>>]

TagInputs ==
    { DictInput(<<"noun">>, <<1>>),
      DictInput(<<"noun", "fire">>, <<1, 1>>),
      DictInput(<<"ghost", "noun">>, <<1, 1>>),
      ListInput(<<"ghost", "ghost">>),
      ListInput(<<"noun">>),
      DictInput(<<"noun">>, <<0>>),
      DictInput(<<"odd">>, <<1>>),
      DictInput(<<"noun", "odd">>, <<1, 1>>),
      DictInput(<<"strict">>, <<1>>),
      DictInput(<<"verb">>, <<1>>),
      OtherInput }

Attempts == {0, MaxAttempts}

GrammarTypes == {"plural", "past", "dual"}

\* ---------------------------------------------------------- _aggregate

\* {tag: 1.0 for tag in tags_input}: the keys in first-occurrence order.
RECURSIVE DictKeysOfList(_, _)
DictKeysOfList(tags, acc) ==
    IF tags = <<>> THEN acc
    ELSE DictKeysOfList(Tail(tags),
                        IF Head(tags) \in Range(acc) THEN acc
                        ELSE Append(acc, Head(tags)))

\* Variant: a list keeps its repeated names, each with multiplier 1.
NormalizeKeepsRepeats(tags_input) ==
    IF tags_input.kind = "list"
    THEN [i \in DOMAIN tags_input.tags |-> <<tags_input.tags[i], 1>>]
    ELSE [i \in DOMAIN tags_input.tags |->
             <<tags_input.tags[i], tags_input.mults[i]>>]

\* active_tags, as the sequence of its (tag, multiplier) items.
Normalize(tags_input) ==
    IF tags_input.kind = "list"
    THEN LET keys == DictKeysOfList(tags_input.tags, <<>>)
         IN [i \in DOMAIN keys |-> <<keys[i], 1>>]
    ELSE [i \in DOMAIN tags_input.tags |->
             <<tags_input.tags[i], tags_input.mults[i]>>]

\* pools[cat][phon] += w for every cat of cats
PoolAdd(pools, cats, phon, w) ==
    [c \in (DOMAIN pools) \cup cats |->
        IF c \in cats
        THEN LET old == DictGetOr(pools, c, EmptyDict)
             IN DictSet(old, phon, FloatAdd(DictGetOr(old, phon, 0), w))
        ELSE pools[c]]

\* Variant: a phoneme is put in "any" beside its classes.
AddPhonemeAlsoAny(pools, phon, w) ==
    PoolAdd(pools, phoneme_to_defs(phon) \cup {"any"}, phon, w)

\* Variant: a phoneme is put in one of its classes only.
AddPhonemeOneClass(pools, phon, w) ==
    LET parent_categories == phoneme_to_defs(phon)
    IN IF parent_categories # {}
       THEN PoolAdd(pools, {CHOOSE c \in parent_categories : TRUE}, phon, w)
       ELSE PoolAdd(pools, {"any"}, phon, w)

AddPhoneme(pools, phon, w) ==
    LET parent_categories == phoneme_to_defs(phon)
    IN IF parent_categories # {}
       THEN PoolAdd(pools, parent_categories, phon, w)
       ELSE PoolAdd(pools, {"any"}, phon, w)

RECURSIVE AddPhonemes(_, _, _)
AddPhonemes(pools, phonemes_to_add, w) ==
    IF phonemes_to_add = <<>> THEN pools
    ELSE AddPhonemes(AddPhoneme(pools, Head(phonemes_to_add), w),
                     Tail(phonemes_to_add), w)

RECURSIVE AddSounds(_, _, _)
AddSounds(pools, entries, w) ==
    IF entries = <<>> THEN pools
    ELSE LET entry == Head(entries)
             phonemes_to_add == IF entry \in DOMAIN definitions
                                THEN definitions[entry] ELSE <<entry>>
         IN AddSounds(AddPhonemes(pools, phonemes_to_add, w), Tail(entries), w)

\* Variant: a shape keeps the weight of the last tag that contributes it.
RECURSIVE AddShapesLastWins(_, _, _)
AddShapesLastWins(shapes_weights, shapes, w) ==
    IF shapes = <<>> THEN shapes_weights
    ELSE AddShapesLastWins(DictSet(shapes_weights, Head(shapes), w),
                           Tail(shapes), w)

RECURSIVE AddShapes(_, _, _)
AddShapes(shapes_weights, shapes, w) ==
    IF shapes = <<>> THEN shapes_weights
    ELSE AddShapes(DictSet(shapes_weights, Head(shapes),
                           FloatAdd(DictGetOr(shapes_weights, Head(shapes),
                                              0), w)),
                   Tail(shapes), w)

\* Variant: every name is appended, seen or not.
AddEvery(order, names) == order \o names

\* append each name not seen before
RECURSIVE AddUnseen(_, _)
AddUnseen(order, names) ==
    IF names = <<>> THEN order
    ELSE AddUnseen(IF Head(names) \in Range(order) THEN order
                   ELSE Append(order, Head(names)),
                   Tail(names))

\* "default" is appended for each processed tag, whether seen or not
AddDefaultSpelling(spelling_order) ==
    IF "default" \in DOMAIN orthography
    THEN Append(spelling_order, "default") ELSE spelling_order

\* Variant: the count of a missing tag is set to 1, not incremented.
AggregateTagCountsOnce(st, tag, input_scalar) ==
    IF tag \notin DOMAIN ontology
    THEN [st EXCEPT !.missing_tags = DictSet(@, tag, 1)]
    ELSE LET concept == ontology[tag]
             final_weight ==
                 FloatMul(DictGetOr(concept, "weight", 1), input_scalar)
         IN IF final_weight <= 0 THEN st
            ELSE [st EXCEPT
                    !.pools =
                        AddSounds(@, DictGetOr(concept, "add_sounds", <<>>),
                                  final_weight),
                    !.shapes_weights =
                        AddShapes(@, DictGetOr(concept, "add_shapes", <<>>),
                                  final_weight),
                    !.rules_enabled =
                        AddUnseen(@, DictGetOr(concept, "add_rules", <<>>)),
                    !.spelling_order =
                        AddUnseen(AddDefaultSpelling(@),
                                  DictGetOr(concept, "add_spelling", <<>>))]

\* Variant: a tag of weight <= 0 still activates its rules.
AggregateTagKeepsRules(st, tag, input_scalar) ==
    IF tag \notin DOMAIN ontology
    THEN [st EXCEPT !.missing_tags =
                 DictSet(@, tag, DictGetOr(@, tag, 0) + 1)]
    ELSE LET concept == ontology[tag]
             final_weight ==
                 FloatMul(DictGetOr(concept, "weight", 1), input_scalar)
         IN IF final_weight <= 0
            THEN [st EXCEPT !.rules_enabled =
                     AddUnseen(@, DictGetOr(concept, "add_rules", <<>>))]
            ELSE [st EXCEPT
                    !.pools =
                        AddSounds(@, DictGetOr(concept, "add_sounds", <<>>),
                                  final_weight),
                    !.shapes_weights =
                        AddShapes(@, DictGetOr(concept, "add_shapes", <<>>),
                                  final_weight),
                    !.rules_enabled =
                        AddUnseen(@, DictGetOr(concept, "add_rules", <<>>)),
                    !.spelling_order =
                        AddUnseen(AddDefaultSpelling(@),
                                  DictGetOr(concept, "add_spelling", <<>>))]

\* Variant: a tag of effective weight zero is processed.
AggregateTagAllowsZero(st, tag, input_scalar) ==
    IF tag \notin DOMAIN ontology
    THEN [st EXCEPT !.missing_tags =
                 DictSet(@, tag, DictGetOr(@, tag, 0) + 1)]
    ELSE LET concept == ontology[tag]
             final_weight ==
                 FloatMul(DictGetOr(concept, "weight", 1), input_scalar)
         IN IF final_weight < 0 THEN st
            ELSE [st EXCEPT
                    !.pools =
                        AddSounds(@, DictGetOr(concept, "add_sounds", <<>>),
                                  final_weight),
                    !.shapes_weights =
                        AddShapes(@, DictGetOr(concept, "add_shapes", <<>>),
                                  final_weight),
                    !.rules_enabled =
                        AddUnseen(@, DictGetOr(concept, "add_rules", <<>>)),
                    !.spelling_order =
                        AddUnseen(AddDefaultSpelling(@),
                                  DictGetOr(concept, "add_spelling", <<>>))]

\* One iteration of the loop over active_tags.
AggregateTag(st, tag, input_scalar) ==
    IF tag \notin DOMAIN ontology
    THEN [st EXCEPT !.missing_tags =
                 DictSet(@, tag, DictGetOr(@, tag, 0) + 1)]
    ELSE LET concept == ontology[tag]
             final_weight ==
                 FloatMul(DictGetOr(concept, "weight", 1), input_scalar)
         IN IF final_weight <= 0 THEN st
            ELSE [st EXCEPT
                    !.pools =
                        AddSounds(@, DictGetOr(concept, "add_sounds", <<>>),
                                  final_weight),
                    !.shapes_weights =
                        AddShapes(@, DictGetOr(concept, "add_shapes", <<>>),
                                  final_weight),
                    !.rules_enabled =
                        AddUnseen(@, DictGetOr(concept, "add_rules", <<>>)),
                    !.spelling_order =
                        AddUnseen(AddDefaultSpelling(@),
                                  DictGetOr(concept, "add_spelling", <<>>))]

RECURSIVE AggregateTags(_, _)
AggregateTags(st, active_tags) ==
    IF active_tags = <<>> THEN st
    ELSE AggregateTags(AggregateTag(st, Head(active_tags)[1],
                                    Head(active_tags)[2]),
                       Tail(active_tags))

\* pools[name][phon] += 1.0 for each phon of phons
RECURSIVE AddToPool(_, _, _)
AddToPool(pools, name, phons) ==
    IF phons = <<>> THEN pools
    ELSE AddToPool(PoolAdd(pools, {name}, Head(phons), 1), name, Tail(phons))

PoolEmpty(pools, name) == DictGetOr(pools, name, EmptyDict) = EmptyDict

\* The safety net: seed C and V from the raw definitions.
SafetyNet(pools) ==
    IF DOMAIN pools = {} \/ (PoolEmpty(pools, "C") /\ PoolEmpty(pools, "any"))
    THEN LET withC == IF "C" \in DOMAIN definitions
                      THEN AddToPool(pools, "C", definitions["C"])
                      ELSE pools
         IN IF "V" \in DOMAIN definitions
            THEN AddToPool(withC, "V", definitions["V"])
            ELSE withC
    ELSE pools

\* _aggregate on a list or dict input: the four results and the updated
\* missing-tag counters.
Aggregate(tags_input, missing) ==
    LET st0 == [pools |-> EmptyDict, shapes_weights |-> EmptyDict,
                rules_enabled |-> <<>>, spelling_order |-> <<>>,
                missing_tags |-> missing]
        st == AggregateTags(st0, Normalize(tags_input))
    IN [st EXCEPT !.pools = SafetyNet(@)]

NoAgg == [pools |-> EmptyDict, shapes_weights |-> EmptyDict,
          rules_enabled |-> <<>>, spelling_order |-> <<>>]
NoCall == [op |-> "none", tags |-> OtherInput, grammar_type |-> "",
           attempts |-> 0]
NoResult == [kind |-> "none", value |-> NoneVal]
Returned(v) == [kind |-> "return", value |-> v]
Raised(e) == [kind |-> e, value |-> NoneVal]

\* ------------------------------------------------------- random choices

\* One draw from the random stream.  A seeded stream is a fixed sequence: a
\* position drawn before gives the same outcome again.
Draw(u) ==
    /\ draws' = draws + 1
    /\ IF seeded
       THEN /\ pos < MaxTape
            /\ pos < Len(tape) => u = tape[pos + 1]
            /\ tape' = IF pos < Len(tape) THEN tape ELSE Append(tape, u)
            /\ pos' = pos + 1
       ELSE UNCHANGED <<tape, pos>>

NoDraw == UNCHANGED <<tape, pos, draws>>

\* random.choice(seq)
UniformChoice(seq, u) == seq[((u * Len(seq)) \div RandRes) + 1]

\* random.choices(population, weights=weights, k=1)[0]: bisect of the
\* cumulative weights at random() * total
WeightedChoice(population, weights, u) ==
    LET n == Len(population)
        total == SumSeq(weights)
        below == {i \in 1..n :
                     SumSeq(SubSeq(weights, 1, i)) * RandRes <= u * total}
        k == Cardinality(below)
    IN population[(IF k < n - 1 THEN k ELSE n - 1) + 1]

Choice(population, weights, u) ==
    IF SumSeq(weights) = 0 THEN UniformChoice(population, u)
    ELSE WeightedChoice(population, weights, u)

\* ---------------------------------------------- _choose_shape, _expand_shape

ShapeList(shapes_weights) == SortedStrs(DOMAIN shapes_weights)

\* the template _choose_shape picks
ChosenTemplate(shapes_weights, u) ==
    LET shapes == ShapeList(shapes_weights)
        weights == [i \in DOMAIN shapes |-> Max(shapes_weights[shapes[i]], 0)]
    IN Choice(shapes, weights, u)

\* Variant: the segment runs to the last closing parenthesis.
LastClose(s, i) ==
    IF \E j \in (i + 1)..Len(s) : s[j] = ")"
    THEN CHOOSE j \in (i + 1)..Len(s) :
             s[j] = ")" /\ \A k \in (j + 1)..Len(s) : s[k] # ")"
    ELSE 0

\* The leftmost match of \(([^)]+)\) in s: <<start, end>>, or <<0, 0>>.
FirstClose(s, i) ==
    IF \E j \in (i + 1)..Len(s) : s[j] = ")"
    THEN CHOOSE j \in (i + 1)..Len(s) :
             s[j] = ")" /\ \A k \in (i + 1)..(j - 1) : s[k] # ")"
    ELSE 0

MatchesAt(s, i) == s[i] = "(" /\ FirstClose(s, i) >= i + 2

FirstMatch(s) ==
    IF \E i \in 1..Len(s) : MatchesAt(s, i)
    THEN LET i == CHOOSE i \in 1..Len(s) :
                      MatchesAt(s, i) /\ \A k \in 1..(i - 1) : ~MatchesAt(s, k)
         IN <<i, FirstClose(s, i)>>
    ELSE <<0, 0>>

\* ----------------------------------------------------------- _fill_shape

\* The order in which a set of strings is iterated: it follows the strings'
\* hashes, which change from one process to the next.
HashSeeds == {"h1", "h2"}

RECURSIVE Reverse(_)
Reverse(s) == IF s = <<>> THEN <<>> ELSE Append(Reverse(Tail(s)), Head(s))

SetIter(S) ==
    IF hashseed = "h1" THEN SortedChars(S) ELSE Reverse(SortedChars(S))

\* sorted() of an iterable of one-character strings
Sorted(iterable) == SortedChars(Range(iterable))

\* Variant: the candidates in the set's own order, not sorted.
CandidateListUnsorted(ch, pools) ==
    LET slot_pool == DictGetOr(pools, ch, EmptyDict)
        any_pool == DictGetOr(pools, "any", EmptyDict)
    IN SetIter((DOMAIN slot_pool) \cup (DOMAIN any_pool))

\* Variant: a slot symbol without candidates stands for itself.
CandidateListOrSymbol(ch, pools) ==
    LET slot_pool == DictGetOr(pools, ch, EmptyDict)
        any_pool == DictGetOr(pools, "any", EmptyDict)
        candidates == SetIter((DOMAIN slot_pool) \cup (DOMAIN any_pool))
    IN IF candidates = <<>> THEN <<ch>> ELSE Sorted(candidates)

\* candidate_list for slot symbol ch
CandidateList(ch, pools) ==
    LET slot_pool == DictGetOr(pools, ch, EmptyDict)
        any_pool == DictGetOr(pools, "any", EmptyDict)
        candidates == SetIter((DOMAIN slot_pool) \cup (DOMAIN any_pool))
    IN Sorted(candidates)

\* Variant: a candidate weighs what it weighs in the slot's own pool.
CandidateWeightsSlotOnly(ch, pools) ==
    LET slot_pool == DictGetOr(pools, ch, EmptyDict)
        candidate_list == CandidateList(ch, pools)
    IN [i \in DOMAIN candidate_list |->
           DictGetOr(slot_pool, candidate_list[i], 0)]

CandidateWeights(ch, pools) ==
    LET slot_pool == DictGetOr(pools, ch, EmptyDict)
        any_pool == DictGetOr(pools, "any", EmptyDict)
        candidate_list == CandidateList(ch, pools)
    IN [i \in DOMAIN candidate_list |->
           FloatAdd(DictGetOr(slot_pool, candidate_list[i], 0),
                    DictGetOr(any_pool, candidate_list[i], 0))]

\* ------------------------------------------------- _violates_constraints

\* pattern.search(word) for a literal pattern
Search(pattern, w) ==
    \E i \in 1..(Len(w) - Len(pattern) + 1) :
        SubSeq(w, i, i + Len(pattern) - 1) = pattern

ViolatesConstraints(w, rules_enabled) ==
    \E r \in DOMAIN rules_enabled :
        /\ rules_enabled[r] \in DOMAIN constraints
        /\ \E p \in DOMAIN constraints[rules_enabled[r]] :
               Search(constraints[rules_enabled[r]][p].pattern, w)

\* ----------------------------------------------------- _apply_orthography

StartsWith(s, frm) == Len(s) >= Len(frm) /\ SubSeq(s, 1, Len(frm)) = frm

\* str.replace(frm, to, 1): the first occurrence only
RECURSIVE ReplaceFirst(_, _, _)
ReplaceFirst(s, frm, to) ==
    IF s = <<>> THEN <<>>
    ELSE IF StartsWith(s, frm)
    THEN to \o SubSeq(s, Len(frm) + 1, Len(s))
    ELSE <<Head(s)>> \o ReplaceFirst(Tail(s), frm, to)

\* str.replace(frm, to) for a non-empty frm
RECURSIVE Replace(_, _, _)
Replace(s, frm, to) ==
    IF s = <<>> THEN <<>>
    ELSE IF StartsWith(s, frm)
    THEN to \o Replace(SubSeq(s, Len(frm) + 1, Len(s)), frm, to)
    ELSE <<Head(s)>> \o Replace(Tail(s), frm, to)

RECURSIVE ApplyRules(_, _)
ApplyRules(w, rules) ==
    IF rules = <<>> THEN w
    ELSE ApplyRules(IF Head(rules).from # <<>>
                    THEN Replace(w, Head(rules).from, Head(rules).to)
                    ELSE w,
                    Tail(rules))

RECURSIVE ApplyOrthography(_, _)
ApplyOrthography(w, spelling_order) ==
    IF spelling_order = <<>> THEN w
    ELSE ApplyOrthography(
             IF Head(spelling_order) \in DOMAIN orthography
             THEN ApplyRules(w, orthography[Head(spelling_order)])
             ELSE w,
             Tail(spelling_order))

\* ------------------------------------------------------------- the calls

Init ==
    /\ file = [exists |-> TRUE, document |-> config]
    /\ engine = InitEngine(config)
    /\ other = NoOther
    /\ lexicon = EmptyDict
    /\ missing_tags = EmptyDict
    /\ seeded = FALSE
    /\ tape = <<>>
    /\ pos = 0
    /\ ncalls = 0
    /\ pc = "idle"
    /\ call = NoCall
    /\ agg = NoAgg
    /\ phase = 0
    /\ iter = 0
    /\ draws = 0
    /\ shape = <<>>
    /\ todo = <<>>
    /\ out = <<>>
    /\ word = NoneVal
    /\ raw = NoneVal
    /\ result = NoResult
    /\ log = <<>>
    /\ prevLog = <<>>
    /\ hashseed = "h1"
    /\ lex0 = EmptyDict
    /\ missing0 = EmptyDict
    /\ accepted = FALSE

\* Variant: the range is one too long.
LoopBoundOneMore(attempts) == Max(1, attempts) + 1

\* range(max(1, int(attempts)))
LoopBound(attempts) == Max(1, attempts)

Locals(sh, td, o, w) ==
    /\ shape' = sh
    /\ todo' = td
    /\ out' = o
    /\ word' = w

\* The call c ends with res; rawv is the fill its value was made from.
Finish(c, res, rawv) ==
    /\ result' = res
    /\ raw' = rawv
    /\ pc' = "idle"
    /\ log' = IF seeded THEN Append(log, [call |-> c, result |-> res]) ELSE log
    /\ Locals(<<>>, <<>>, <<>>, NoneVal)

\* Variant: both operations fall back to the vowel.
AfterLoopFallsBack(op) == Returned(<<"a">>)

\* Variant: both operations raise.
AfterLoopRaises(op) == Raised("Exhausted")

\* What follows the loop: generate raises, generate_suffix returns a vowel.
AfterLoop(op) ==
    IF op = "generate" THEN Raised("Exhausted") ELSE Returned(<<"a">>)

\* Variant: the check of the shape weights is left out.
HasBlueprintUnchecked(shapes_weights) == TRUE

\* `if not shapes_weights` fails
HasBlueprint(shapes_weights) == DOMAIN shapes_weights # {}

\* `continue`, and what follows the loop when the range is used up: generate
\* raises, generate_suffix returns the fallback vowel.
Continue ==
    IF iter < LoopBound(call.attempts)
    THEN /\ iter' = iter + 1
         /\ phase' = IF call.op = "generate" THEN 1 ELSE 3
         /\ pc' = IF call.op = "generate" THEN "choose" ELSE "fill"
         /\ Locals(IF call.op = "generate" THEN <<>> ELSE shape,
                   <<>>, <<>>, NoneVal)
         /\ UNCHANGED <<result, raw, log>>
    ELSE /\ Finish(call, AfterLoop(call.op), NoneVal)
         /\ UNCHANGED <<iter, phase>>

AggOf(st) ==
    [pools |-> st.pools, shapes_weights |-> st.shapes_weights,
     rules_enabled |-> st.rules_enabled, spelling_order |-> st.spelling_order]

\* A seeded run is followed by one more run from the same seed, which issues
\* the calls of the first in the same order.
MayCall(c) ==
    seeded =>
        /\ ncalls < MaxRunCalls
        /\ prevLog # <<>> =>
               (ncalls < Len(prevLog) /\ prevLog[ncalls + 1].call = c)

\* generate(tags, attempts), up to the first iteration of the loop
GenerateCall(tags_input, attempts) ==
    /\ pc = "idle"
    /\ ncalls < MaxCalls
    /\ ncalls' = ncalls + 1
    /\ call' = [op |-> "generate", tags |-> tags_input, grammar_type |-> "",
                attempts |-> attempts]
    /\ MayCall(call')
    /\ draws' = 0
    /\ lex0' = lexicon
    /\ missing0' = missing_tags
    /\ accepted' = FALSE
    /\ UNCHANGED <<file, engine, other, lexicon, seeded, tape, pos, prevLog,
                   hashseed>>
    /\ IF tags_input.kind = "other"
       THEN /\ Finish(call', Raised("InvalidInput"), NoneVal)
            /\ agg' = NoAgg
            /\ iter' = 0
            /\ phase' = 0
            /\ UNCHANGED missing_tags
       ELSE LET st == Aggregate(tags_input, missing_tags)
            IN /\ missing_tags' = st.missing_tags
               /\ agg' = AggOf(st)
               /\ IF ~HasBlueprint(st.shapes_weights)
                  THEN /\ Finish(call', Raised("NoBlueprint"), NoneVal)
                       /\ iter' = 0
                       /\ phase' = 0
                  ELSE /\ iter' = 1
                       /\ phase' = 1
                       /\ pc' = "choose"
                       /\ result' = NoResult
                       /\ raw' = NoneVal
                       /\ Locals(<<>>, <<>>, <<>>, NoneVal)
                       /\ UNCHANGED log

\* _choose_shape up to the call of _expand_shape
ChooseShape ==
    /\ UNCHANGED <<file, engine, other>>
    /\ pc = "choose"
    /\ \E u \in 0..(RandRes - 1) :
           /\ Draw(u)
           /\ todo' = ChosenTemplate(agg.shapes_weights, u)
    /\ pc' = "expand"
    /\ UNCHANGED <<lexicon, missing_tags, seeded, ncalls, call, agg, phase,
                   iter, shape, out, word, raw, result, log, prevLog,
                   hashseed, lex0, missing0, accepted>>

\* re.sub replaces the next parenthesized segment
ExpandSegment ==
    /\ UNCHANGED <<file, engine, other>>
    /\ pc = "expand"
    /\ FirstMatch(todo)[1] # 0
    /\ \E u \in 0..(RandRes - 1) :
           LET m == FirstMatch(todo)
               content == SubSeq(todo, m[1] + 1, m[2] - 1)
           IN /\ Draw(u)
              /\ shape' = shape \o SubSeq(todo, 1, m[1] - 1)
                                \o UniformChoice(<<content, <<>>>>, u)
              /\ todo' = SubSeq(todo, m[2] + 1, Len(todo))
    /\ UNCHANGED <<lexicon, missing_tags, seeded, ncalls, pc, call, agg, phase,
                   iter, out, word, raw, result, log, prevLog,
                   hashseed, lex0, missing0, accepted>>

\* re.sub is through; `if not shape: continue` (line 289) in the first phase
ExpandDone ==
    /\ UNCHANGED <<file, engine, other>>
    /\ pc = "expand"
    /\ FirstMatch(todo)[1] = 0
    /\ NoDraw
    /\ IF phase = 1 /\ shape \o todo = <<>>
       THEN Continue
       ELSE /\ Locals(shape \o todo, <<>>, <<>>, NoneVal)
            /\ pc' = "fill"
            /\ UNCHANGED <<iter, phase, result, raw, log>>
    /\ UNCHANGED <<lexicon, missing_tags, seeded, ncalls, call, agg, prevLog,
                   hashseed, lex0, missing0, accepted>>

\* one iteration of `for ch in shape` in _fill_shape
FillSlot ==
    /\ UNCHANGED <<file, engine, other>>
    /\ pc = "fill"
    /\ Len(out) < Len(shape)
    /\ LET ch == shape[Len(out) + 1]
           candidate_list == CandidateList(ch, agg.pools)
           weights == CandidateWeights(ch, agg.pools)
       IN IF candidate_list = <<>>
          THEN /\ NoDraw
               /\ word' = NoneVal
               /\ out' = <<>>
               /\ pc' = "check"
          ELSE \E u \in 0..(RandRes - 1) :
                   LET filled == Append(out, Choice(candidate_list, weights, u))
                   IN /\ Draw(u)
                      /\ IF Len(filled) = Len(shape)
                         THEN /\ word' = filled
                              /\ out' = <<>>
                              /\ pc' = "check"
                         ELSE /\ out' = filled
                              /\ UNCHANGED <<word, pc>>
    /\ UNCHANGED <<lexicon, missing_tags, seeded, ncalls, call, agg, phase,
                   iter, shape, todo, raw, result, log, prevLog,
                   hashseed, lex0, missing0, accepted>>

\* self.lexicon[word] = word; return word
RecordAndReturn(w, rawv) ==
    /\ lexicon' = DictSet(lexicon, w, w)
    /\ Finish(call, Returned(w), rawv)
    /\ UNCHANGED <<iter, phase>>

\* Variant: a candidate whose spelled form is known is given up for the next
\* attempt.
CheckFirstRetries ==
    IF word = NoneVal \/ ViolatesConstraints(word, agg.rules_enabled)
    THEN Continue /\ UNCHANGED <<lexicon, accepted>>
    ELSE LET spelled == ApplyOrthography(word, agg.spelling_order)
         IN IF Falsy(DictGet(lexicon, spelled))
            THEN RecordAndReturn(spelled, word) /\ accepted' = TRUE
            ELSE Continue /\ accepted' = TRUE /\ UNCHANGED lexicon

\* Variant: the spelled word is returned without a look at the lexicon.
CheckFirstUnchecked ==
    IF word = NoneVal \/ ViolatesConstraints(word, agg.rules_enabled)
    THEN Continue /\ UNCHANGED <<lexicon, accepted>>
    ELSE RecordAndReturn(ApplyOrthography(word, agg.spelling_order), word)
             /\ accepted' = TRUE

\* generate, lines 293-307
CheckFirst ==
    IF word = NoneVal \/ ViolatesConstraints(word, agg.rules_enabled)
    THEN Continue /\ UNCHANGED <<lexicon, accepted>>
    ELSE IF EqualsFalse(DictGet(lexicon, word))
    THEN RecordAndReturn(word, word) /\ accepted' = TRUE
    ELSE LET spelled == ApplyOrthography(word, agg.spelling_order)
         IN IF Falsy(DictGet(lexicon, spelled))
            THEN RecordAndReturn(spelled, word) /\ accepted' = TRUE
            ELSE /\ accepted' = TRUE
                 /\ phase' = 2
                 /\ pc' = "choose"
                 /\ word' = spelled
                 /\ UNCHANGED <<lexicon, iter, shape, todo, out, raw, result,
                                log>>

\* generate, lines 311-313, after the compound shape was filled
CheckSecond ==
    /\ UNCHANGED accepted
    /\ IF Falsy(DictGet(lexicon, word))
       THEN RecordAndReturn(word, word)
       ELSE Continue /\ UNCHANGED lexicon

\* generate_suffix without the check of the constraints
CheckSuffixUnchecked ==
    /\ UNCHANGED lexicon
    /\ IF word = NoneVal
       THEN Continue /\ UNCHANGED accepted
       ELSE /\ accepted' = TRUE
            /\ Finish(call,
                      Returned(ApplyOrthography(word, agg.spelling_order)),
                      word)
            /\ UNCHANGED <<iter, phase>>

\* generate_suffix, lines 341-348
CheckSuffix ==
    /\ UNCHANGED lexicon
    /\ IF word = NoneVal \/ ViolatesConstraints(word, agg.rules_enabled)
       THEN Continue /\ UNCHANGED accepted
       ELSE /\ accepted' = TRUE
            /\ Finish(call,
                      Returned(ApplyOrthography(word, agg.spelling_order)),
                      word)
            /\ UNCHANGED <<iter, phase>>

CheckWord ==
    /\ UNCHANGED <<file, engine, other>>
    /\ pc = "check"
    /\ NoDraw
    /\ CASE phase = 1 -> CheckFirst
         [] phase = 2 -> CheckSecond
         [] OTHER -> CheckSuffix
    /\ UNCHANGED <<missing_tags, seeded, ncalls, call, agg, prevLog, hashseed,
                   lex0, missing0>>

\* not morph_def or not isinstance(morph_def, dict)
NoMorphDef(grammar_type) ==
    \/ grammar_type \notin DOMAIN morphology
    \/ morphology[grammar_type] = EmptyDict

\* {anchor: 1.0} if anchor else {}
AnchorTags(morph_def) ==
    LET anchor == DictGetOr(morph_def, "anchor", "")
    IN IF anchor = "" THEN DictInput(<<>>, <<>>)
       ELSE DictInput(<<anchor>>, <<1>>)

\* the shape with its optional segments kept and the parentheses dropped
SuffixShapeExpanded(morph_def) ==
    SelectSeq(DictGetOr(morph_def, "shape", <<"V">>),
              LAMBDA ch : ch \notin {"(", ")"})

\* morph_def.get("shape", "V")
SuffixShape(morph_def) == DictGetOr(morph_def, "shape", <<"V">>)

\* generate_suffix(grammar_type, attempts), up to the first iteration
SuffixCall(grammar_type, attempts) ==
    /\ pc = "idle"
    /\ ncalls < MaxCalls
    /\ ncalls' = ncalls + 1
    /\ call' = [op |-> "generate_suffix", tags |-> OtherInput,
                grammar_type |-> grammar_type, attempts |-> attempts]
    /\ MayCall(call')
    /\ draws' = 0
    /\ lex0' = lexicon
    /\ missing0' = missing_tags
    /\ accepted' = FALSE
    /\ UNCHANGED <<file, engine, other, lexicon, seeded, tape, pos, prevLog,
                   hashseed>>
    /\ IF NoMorphDef(grammar_type)
       THEN /\ Finish(call', Returned(<<"a">>), NoneVal)
            /\ agg' = NoAgg
            /\ iter' = 0
            /\ phase' = 0
            /\ UNCHANGED missing_tags
       ELSE LET morph_def == morphology[grammar_type]
                anchor_tags == AnchorTags(morph_def)
                st == Aggregate(anchor_tags, missing_tags)
            IN /\ missing_tags' = st.missing_tags
               /\ agg' = AggOf(st)
               /\ iter' = 1
               /\ phase' = 3
               /\ result' = NoResult
               /\ raw' = NoneVal
               /\ UNCHANGED log
               /\ IF SuffixShape(morph_def) = <<>>
                  THEN /\ Locals(<<>>, <<>>, <<>>, <<>>)
                       /\ pc' = "check"
                  ELSE /\ Locals(SuffixShape(morph_def), <<>>, <<>>, NoneVal)
                       /\ pc' = "fill"

Next ==
    \/ \E t \in TagInputs, a \in Attempts : GenerateCall(t, a)
    \/ \E g \in GrammarTypes, a \in Attempts : SuffixCall(g, a)
    \/ ChooseShape
    \/ ExpandSegment
    \/ ExpandDone
    \/ FillSlot
    \/ CheckWord

Spec == Init /\ [][Next]_vars

\* ------------------------------------------------------------ seeded runs

\* ConlangEngine(json_path, seed) in a fresh process, once the first run has
\* made its calls: random.seed(seed) puts the stream back at its start; the
\* lexicon and the counters start empty.
Construct ==
    /\ UNCHANGED <<file, engine, other>>
    /\ pc = "idle"
    /\ seeded
    /\ ncalls = MaxRunCalls
    /\ prevLog = <<>>
    /\ pc' = "idle"
    /\ lexicon' = EmptyDict
    /\ missing_tags' = EmptyDict
    /\ pos' = 0
    /\ ncalls' = 0
    /\ hashseed' \in HashSeeds
    /\ prevLog' = log
    /\ log' = <<>>
    /\ call' = NoCall
    /\ agg' = NoAgg
    /\ phase' = 0
    /\ iter' = 0
    /\ draws' = 0
    /\ raw' = NoneVal
    /\ result' = NoResult
    /\ lex0' = EmptyDict
    /\ missing0' = EmptyDict
    /\ accepted' = FALSE
    /\ UNCHANGED <<seeded, tape, shape, todo, out, word>>

InitSeeded ==
    /\ file = [exists |-> TRUE, document |-> config]
    /\ engine = InitEngine(config)
    /\ other = NoOther
    /\ lexicon = EmptyDict
    /\ missing_tags = EmptyDict
    /\ seeded = TRUE
    /\ tape = <<>>
    /\ pos = 0
    /\ ncalls = 0
    /\ pc = "idle"
    /\ call = NoCall
    /\ agg = NoAgg
    /\ phase = 0
    /\ iter = 0
    /\ draws = 0
    /\ shape = <<>>
    /\ todo = <<>>
    /\ out = <<>>
    /\ word = NoneVal
    /\ raw = NoneVal
    /\ result = NoResult
    /\ log = <<>>
    /\ prevLog = <<>>
    /\ hashseed = "h1"
    /\ lex0 = EmptyDict
    /\ missing0 = EmptyDict
    /\ accepted = FALSE

\* The tag inputs of the seeded runs.
SeededInputs ==
    { DictInput(<<"noun">>, <<1>>),
      DictInput(<<"noun", "fire">>, <<1, 1>>),
      DictInput(<<"ghost", "noun">>, <<1, 1>>),
      ListInput(<<"noun">>),
      DictInput(<<"noun", "odd">>, <<1, 1>>),
      DictInput(<<"verb">>, <<1>>) }

NextSeeded ==
    \/ \E t \in SeededInputs, a \in Attempts : GenerateCall(t, a)
    \/ \E g \in GrammarTypes, a \in Attempts : SuffixCall(g, a)
    \/ ChooseShape
    \/ ExpandSegment
    \/ ExpandDone
    \/ FillSlot
    \/ CheckWord
    \/ Construct

SpecSeeded == InitSeeded /\ [][NextSeeded]_vars

\* --------------------------------------------- two instances in a process

\* The seeds the second instance is constructed with: none, or the seed of
\* the first.
OtherSeeds == {"None", "seed"}

\* ConlangEngine(json_path, seed) for a second instance of the process: it
\* gets a lexicon and counters of its own, and random.seed(seed) (line 24)
\* puts the stream of the random module, which the instances share, back at
\* its start.
ConstructOther(seed) ==
    /\ pc = "idle"
    /\ ~other.constructed
    /\ other' = [id |-> other.id, constructed |-> TRUE,
                 lexicon |-> EmptyDict, missing_tags |-> EmptyDict,
                 seed |-> seed, pos |-> 0]
    /\ pos' = IF seed = "None" THEN pos ELSE 0
    /\ seeded' = (seeded \/ seed # "None")
    /\ UNCHANGED <<file, engine, lexicon, missing_tags, tape, ncalls,
                   pc, call, agg, phase, iter, draws, shape, todo, out, word,
                   raw, result, log, prevLog, hashseed, lex0, missing0,
                   accepted>>

\* The program turns to its other instance: the attributes of the running
\* instance are put aside, with the place where it leaves the stream.
SwitchInstance ==
    /\ pc = "idle"
    /\ other.constructed
    /\ other' = [id |-> 3 - other.id, constructed |-> TRUE,
                 lexicon |-> lexicon, missing_tags |-> missing_tags,
                 seed |-> other.seed, pos |-> pos]
    /\ lexicon' = other.lexicon
    /\ missing_tags' = other.missing_tags
    /\ call' = NoCall
    /\ result' = NoResult
    /\ agg' = NoAgg
    /\ raw' = NoneVal
    /\ UNCHANGED <<file, engine, seeded, tape, pos, ncalls, pc, phase, iter,
                   draws, shape, todo, out, word, log, prevLog, hashseed,
                   lex0, missing0, accepted>>

\* The tag inputs of the calls on the two instances.
TwoInputs == {DictInput(<<"noun">>, <<1>>), DictInput(<<"verb">>, <<1>>)}

NextTwo ==
    \/ \E seed \in OtherSeeds : ConstructOther(seed)
    \/ SwitchInstance
    \/ \E t \in TwoInputs : GenerateCall(t, MaxAttempts)
    \/ ChooseShape
    \/ ExpandSegment
    \/ ExpandDone
    \/ FillSlot
    \/ CheckWord

\* A process with a seeded instance and, once constructed, a second one,
\* with generate calls on the one and on the other.
SpecTwo == InitSeeded /\ [][NextTwo]_vars

\* ------------------------------------------------------- construction

\* The configuration files tried: none at the path, or a document with any of
\* the sections of config, with or without the morphology entry.
Documents ==
    {[k \in S |-> config[k]] : S \in SUBSET Sections}
      \cup {[k \in S \cup {"definitions"} |->
                IF k = "definitions"
                THEN [c \in {"C", "V", "K"} |-> config.definitions[c]]
                ELSE config[k]] : S \in SUBSET Sections}

Files ==
    {[exists |-> FALSE, document |-> EmptyDict]}
      \cup {[exists |-> TRUE, document |-> d] : d \in Documents}

\* The exceptions re.compile raises that are not re.error, over the patterns
\* of the document: _compile_one catches re.error alone.
CompileErrors(document) ==
    LET raw_rules == DictGetOr(document, "constraints", EmptyDict)
    IN UNION {{raw_rules[n][k].raises :
                  k \in {j \in DOMAIN raw_rules[n] :
                            "raises" \in DOMAIN raw_rules[n][j]}}
                 : n \in DOMAIN raw_rules}

\* ConlangEngine(json_path): _load_config raises when there is no file, and
\* _compile_constraints lets through what re.compile raises beside re.error;
\* then no engine exists.
ConstructEngine ==
    /\ pc = "idle"
    /\ ~engine.constructed
    /\ result = NoResult
    /\ call' = [op |-> "__init__", tags |-> OtherInput, grammar_type |-> "",
                attempts |-> 0]
    /\ IF ~file.exists
       THEN /\ result' = Raised("ConfigNotFound")
            /\ UNCHANGED engine
       ELSE IF CompileErrors(file.document) # {}
       THEN /\ result' = Raised(CHOOSE e \in CompileErrors(file.document) :
                                    TRUE)
            /\ UNCHANGED engine
       ELSE /\ result' = Returned(NoneVal)
            /\ engine' = InitEngine(file.document)
    /\ lexicon' = EmptyDict
    /\ missing_tags' = EmptyDict
    /\ UNCHANGED <<file, other, seeded, tape, pos, ncalls, pc, agg, phase, iter,
                   draws, shape, todo, out, word, raw, log, prevLog, hashseed,
                   lex0, missing0, accepted>>

\* _aggregate(tags_input), called on a constructed engine; what it returns
\* is kept in agg.
AggregateCall(tags_input) ==
    /\ pc = "idle"
    /\ engine.constructed
    /\ ncalls < MaxAggregations
    /\ ncalls' = ncalls + 1
    /\ call' = [op |-> "_aggregate", tags |-> tags_input, grammar_type |-> "",
                attempts |-> 0]
    /\ lex0' = lexicon
    /\ missing0' = missing_tags
    /\ IF tags_input.kind = "other"
       THEN /\ result' = Raised("InvalidInput")
            /\ agg' = NoAgg
            /\ UNCHANGED missing_tags
       ELSE LET st == Aggregate(tags_input, missing_tags)
            IN /\ result' = Returned(NoneVal)
               /\ agg' = AggOf(st)
               /\ missing_tags' = st.missing_tags
    /\ UNCHANGED <<file, engine, other, lexicon, seeded, tape, pos, pc, phase,
                   iter,
                   draws, shape, todo, out, word, raw, log, prevLog, hashseed,
                   accepted>>

InitLoad ==
    /\ file \in Files
    /\ engine = NoEngine
    /\ other = NoOther
    /\ lexicon = EmptyDict
    /\ missing_tags = EmptyDict
    /\ seeded = FALSE
    /\ tape = <<>>
    /\ pos = 0
    /\ ncalls = 0
    /\ pc = "idle"
    /\ call = NoCall
    /\ agg = NoAgg
    /\ phase = 0
    /\ iter = 0
    /\ draws = 0
    /\ shape = <<>>
    /\ todo = <<>>
    /\ out = <<>>
    /\ word = NoneVal
    /\ raw = NoneVal
    /\ result = NoResult
    /\ log = <<>>
    /\ prevLog = <<>>
    /\ hashseed = "h1"
    /\ lex0 = EmptyDict
    /\ missing0 = EmptyDict
    /\ accepted = FALSE

NextLoad ==
    \/ ConstructEngine
    \/ \E t \in TagInputs : AggregateCall(t)

\* Construction from any of the files, then aggregations.
SpecLoad == InitLoad /\ [][NextLoad]_vars

\* ----------------------------------------------------- aggregation alone

\* Tags of one aggregation input.
MaxTags == 3

AggTags == {"noun", "fire", "ghost", "vow", "wild", "zero", "huge"}

\* The tags of the longer inputs.
SumTags == {"noun", "fire", "ghost", "wild", "huge"}

Multipliers == {0 - 1, 0, 1}

DistinctSeqs(n, T) ==
    {t \in [1..n -> T] : \A i, j \in 1..n : i # j => t[i] # t[j]}

AggInputs ==
    UNION {{DictInput(t, [i \in 1..n |-> 1]) : t \in DistinctSeqs(n, AggTags)}
              : n \in 0..2}
      \cup UNION {{DictInput(t, [i \in 1..n |-> 1])
                      : t \in DistinctSeqs(n, SumTags)} : n \in 3..MaxTags}
      \cup {DictInput(<<t>>, <<m>>) : t \in AggTags, m \in Multipliers}
      \cup {DictInput(t, m) : t \in DistinctSeqs(2, AggTags),
                              m \in [1..2 -> {0, 1}]}
      \cup UNION {{ListInput(t) : t \in [1..n -> AggTags]} : n \in 0..2}
      \cup {OtherInput}

NextAggregate == \E t \in AggInputs : AggregateCall(t)

\* Aggregations on the engine of the main configuration.
SpecAggregate == Init /\ [][NextAggregate]_vars

\* -------------------------------------------------------- filling alone

\* Longest shape filled.
MaxShape == 3

FillShapes == UNION {[1..n -> {"C", "V", "X"}] : n \in 1..MaxShape}

FillPools ==
    { [C |-> [t |-> 1, k |-> 2], V |-> [a |-> 1]],
      [C |-> [t |-> 1], any |-> [x |-> 3]],
      [C |-> [t |-> 1, x |-> 1], any |-> [x |-> 2, a |-> 1]],
      [any |-> [x |-> 1]],
      [V |-> [a |-> 1]],
      EmptyDict }

InitFill ==
    /\ file = [exists |-> TRUE, document |-> config]
    /\ engine = InitEngine(config)
    /\ other = NoOther
    /\ lexicon = EmptyDict
    /\ missing_tags = EmptyDict
    /\ seeded = TRUE
    /\ tape = <<>>
    /\ pos = 0
    /\ ncalls = 0
    /\ pc = "fill"
    /\ call = [op |-> "_fill_shape", tags |-> OtherInput, grammar_type |-> "",
               attempts |-> 0]
    /\ \E p \in FillPools : agg = [NoAgg EXCEPT !.pools = p]
    /\ phase = 0
    /\ iter = 0
    /\ draws = 0
    /\ shape \in FillShapes
    /\ todo = <<>>
    /\ out = <<>>
    /\ word = NoneVal
    /\ raw = NoneVal
    /\ result = NoResult
    /\ log = <<>>
    /\ prevLog = <<>>
    /\ hashseed \in HashSeeds
    /\ lex0 = EmptyDict
    /\ missing0 = EmptyDict
    /\ accepted = FALSE

NextFill == FillSlot

\* _fill_shape(shape, pools) on the shapes and pools above, one slot a step.
SpecFill == InitFill /\ [][NextFill]_vars

\* ------------------------------------------------------- suffixes alone

\* The entries of the morphology section, and a grammar type without one.
SuffixTypes == DOMAIN config.definitions.morphology \cup {"dual"}

NextSuffix ==
    \/ \E g \in SuffixTypes, a \in Attempts : SuffixCall(g, a)
    \/ FillSlot
    \/ CheckWord

\* generate_suffix calls on the engine of the main configuration.
SpecSuffix == Init /\ [][NextSuffix]_vars

\* ---------------------------------------------- compiling the constraints

\* The constraints sections tried.  The pattern a{9} stands for a repetition
\* count beyond what re.compile takes: it raises OverflowError.
ConstraintSections ==
    { config.constraints,
      [no_ta |-> << [pattern |-> <<"(">>, compiles |-> FALSE],
                    [pattern |-> <<"t", "a">>, compiles |-> TRUE] >>,
       no_a  |-> << [pattern |-> <<>>, compiles |-> TRUE] >>],
      [no_ta |-> << [pattern |-> <<"t", "a">>, compiles |-> TRUE],
                    [pattern |-> <<"a", "{", "9", "}">>, compiles |-> FALSE,
                     raises |-> "OverflowError"] >>],
      EmptyDict }

CompileFiles ==
    {[exists |-> TRUE,
      document |-> [k \in Sections |->
                       IF k = "constraints" THEN c ELSE config[k]]]
        : c \in ConstraintSections}

InitCompile ==
    /\ file \in CompileFiles
    /\ engine = NoEngine
    /\ other = NoOther
    /\ lexicon = EmptyDict
    /\ missing_tags = EmptyDict
    /\ seeded = FALSE
    /\ tape = <<>>
    /\ pos = 0
    /\ ncalls = 0
    /\ pc = "idle"
    /\ call = NoCall
    /\ agg = NoAgg
    /\ phase = 0
    /\ iter = 0
    /\ draws = 0
    /\ shape = <<>>
    /\ todo = <<>>
    /\ out = <<>>
    /\ word = NoneVal
    /\ raw = NoneVal
    /\ result = NoResult
    /\ log = <<>>
    /\ prevLog = <<>>
    /\ hashseed = "h1"
    /\ lex0 = EmptyDict
    /\ missing0 = EmptyDict
    /\ accepted = FALSE

\* generate_suffix can be called once the constructor has returned
NextCompile ==
    \/ ConstructEngine
    \/ engine.constructed /\ \E g \in SuffixTypes, a \in Attempts :
                                 SuffixCall(g, a)
    \/ engine.constructed /\ FillSlot
    \/ engine.constructed /\ CheckWord

\* Construction from a file with one of the constraints sections above,
\* followed by generate_suffix calls.
SpecCompile == InitCompile /\ [][NextCompile]_vars

\* ------------------------------------------------------ expanding alone

\* Longest shape template expanded.
MaxTemplate == 7

\* The templates whose parentheses pair up without nesting, around one
\* symbol or more.
Paired(t) ==
    /\ \A i \in DOMAIN t :
           t[i] = "(" => /\ i + 2 <= Len(t)
                         /\ t[i + 1] \notin {"(", ")"}
                         /\ \E j \in (i + 2)..Len(t) :
                                /\ t[j] = ")"
                                /\ \A k \in (i + 1)..(j - 1) :
                                       t[k] \notin {"(", ")"}
    /\ \A j \in DOMAIN t :
           t[j] = ")" => \E i \in 1..(j - 1) :
                             /\ t[i] = "("
                             /\ \A k \in (i + 1)..(j - 1) :
                                    t[k] \notin {"(", ")"}

Templates ==
    {t \in UNION {[1..n -> {"(", ")", "C", "V"}] : n \in 1..MaxTemplate} :
        Paired(t)}

InitExpand ==
    /\ file = [exists |-> TRUE, document |-> config]
    /\ engine = InitEngine(config)
    /\ other = NoOther
    /\ lexicon = EmptyDict
    /\ missing_tags = EmptyDict
    /\ seeded = TRUE
    /\ tape = <<>>
    /\ pos = 0
    /\ ncalls = 0
    /\ pc = "expand"
    /\ \E t \in Templates :
           /\ call = [op |-> "_expand_shape", tags |-> OtherInput,
                      grammar_type |-> "", attempts |-> 0,
                      shape_template |-> t]
           /\ todo = t
    /\ agg = NoAgg
    /\ phase = 0
    /\ iter = 0
    /\ draws = 0
    /\ shape = <<>>
    /\ out = <<>>
    /\ word = NoneVal
    /\ raw = NoneVal
    /\ result = NoResult
    /\ log = <<>>
    /\ prevLog = <<>>
    /\ hashseed = "h1"
    /\ lex0 = EmptyDict
    /\ missing0 = EmptyDict
    /\ accepted = FALSE

NextExpand == ExpandSegment \/ ExpandDone

\* _expand_shape(shape_template) on the templates above, one segment a step.
SpecExpand == InitExpand /\ [][NextExpand]_vars

\* re.sub over s with the outcomes us of random.choice, one per match
RECURSIVE ExpandWith(_, _)
ExpandWith(s, us) ==
    LET m == FirstMatch(s)
    IN IF m[1] = 0 \/ us = <<>> THEN s
       ELSE SubSeq(s, 1, m[1] - 1)
                \o UniformChoice(<<SubSeq(s, m[1] + 1, m[2] - 1), <<>>>>,
                                 Head(us))
                \o ExpandWith(SubSeq(s, m[2] + 1, Len(s)), Tail(us))

\* ------------------------------------------------------ spelling alone

\* Longest word spelled.
MaxWord == 3

SpellWords == UNION {[1..n -> {"k", "t", "a"}] : n \in 0..MaxWord}

\* "none" is a group the orthography section does not have.
SpellGroups == {"default", "alt", "chain", "grow", "blank", "empty", "none"}

SpellOrders == UNION {[1..n -> SpellGroups] : n \in 0..2}

InitSpell ==
    /\ file = [exists |-> TRUE, document |-> config]
    /\ engine = InitEngine(config)
    /\ other = NoOther
    /\ lexicon = EmptyDict
    /\ missing_tags = EmptyDict
    /\ seeded = FALSE
    /\ tape = <<>>
    /\ pos = 0
    /\ ncalls = 0
    /\ pc = "spell"
    /\ call = [op |-> "_apply_orthography", tags |-> OtherInput,
               grammar_type |-> "", attempts |-> 0]
    /\ \E o \in SpellOrders : agg = [NoAgg EXCEPT !.spelling_order = o]
    /\ phase = 0
    /\ iter = 0
    /\ draws = 0
    /\ shape = <<>>
    /\ todo = <<>>
    /\ out = <<>>
    /\ word \in SpellWords
    /\ raw = NoneVal
    /\ result = NoResult
    /\ log = <<>>
    /\ prevLog = <<>>
    /\ hashseed = "h1"
    /\ lex0 = EmptyDict
    /\ missing0 = EmptyDict
    /\ accepted = FALSE

\* return out, after the loops over the groups and their rules
ApplyOrthographyCall ==
    /\ pc = "spell"
    /\ result' = Returned(ApplyOrthography(word, agg.spelling_order))
    /\ pc' = "idle"
    /\ UNCHANGED <<file, engine, other, lexicon, missing_tags, seeded, tape,
                   pos, ncalls, call, agg, phase, iter, draws, shape, todo, out,
                   word, raw, log, prevLog, hashseed, lex0, missing0,
                   accepted>>

\* _apply_orthography(word, spelling_order) on the words and orders above.
SpecSpell == InitSpell /\ [][ApplyOrthographyCall]_vars

\* ================================================================ claims

PoolPhonemes(pools) == UNION {DOMAIN pools[b] : b \in DOMAIN pools}

GenerateEnded == pc = "idle" /\ call.op = "generate"
SuffixEnded == pc = "idle" /\ call.op = "generate_suffix"
ReturnedWord == result.kind = "return" /\ result.value # NoneVal

\* C1 (as claimed): every word generate returns was made from a fill that
\* matches no compiled pattern of any activated rule.
C1_ReturnedWordIsClean ==
    (GenerateEnded /\ ReturnedWord)
        => ~ViolatesConstraints(raw, agg.rules_enabled)

\* C2: when aggregation yields no shape weights, generate raises NoBlueprint
\* at once: no iteration is begun, no random draw is consumed and the
\* lexicon is as it was when the call began.
C2_NoBlueprintBeforeLoop ==
    (call.op = "generate" /\ call.tags.kind # "other"
       /\ DOMAIN agg.shapes_weights = {})
        => /\ pc = "idle"
           /\ result = Raised("NoBlueprint")
           /\ iter = 0
           /\ draws = 0
           /\ lexicon = lex0

C2_Witness ==
    /\ GenerateEnded
    /\ result.kind = "NoBlueprint"
    /\ lexicon # EmptyDict
    /\ call.tags = DictInput(<<"noun">>, <<0>>)

\* C3 (as claimed): with a shape and a phoneme available, generate returns
\* a word made of pool phonemes; it does not raise.
C3_AlwaysReturnsWord ==
    (GenerateEnded /\ DOMAIN agg.shapes_weights # {}
       /\ PoolPhonemes(agg.pools) # {})
        => /\ ReturnedWord
           /\ Range(raw) \subseteq PoolPhonemes(agg.pools)

\* C3 (amended): with a shape and a phoneme available, generate ends within
\* max(1, attempts) iterations by returning or by raising Exhausted, and
\* every word it returns is, before orthography, made of phonemes of the
\* aggregated pools.
C3_ReturnsPoolWordOrExhausted ==
    (GenerateEnded /\ DOMAIN agg.shapes_weights # {}
       /\ PoolPhonemes(agg.pools) # {})
        => /\ result.kind \in {"return", "Exhausted"}
           /\ iter <= (IF call.attempts >= 1 THEN call.attempts ELSE 1)
           /\ ReturnedWord => Range(raw) \subseteq PoolPhonemes(agg.pools)

C3_Witness ==
    /\ GenerateEnded
    /\ ReturnedWord
    /\ Len(raw) = Len(<<"C", "V", "C", "V">>)
    /\ iter = MaxAttempts

\* C4: when a blueprint exists and no candidate of the call passes the
\* constraint check, generate raises Exhausted, after max(1, attempts)
\* iterations; with a blueprint it never raises NoBlueprint.
C4_RejectedMeansExhausted ==
    (GenerateEnded /\ DOMAIN agg.shapes_weights # {})
        => /\ result.kind \in {"return", "Exhausted"}
           /\ ~accepted => result = Raised("Exhausted")
           /\ result.kind = "Exhausted"
                => iter = (IF call.attempts >= 1 THEN call.attempts ELSE 1)

C4_Witness ==
    /\ GenerateEnded
    /\ result.kind = "Exhausted"
    /\ ~accepted
    /\ agg.rules_enabled = <<"no_a">>
    /\ iter = MaxAttempts

\* C5: two runs from the same seed that issue the same calls return the
\* same results, call by call.
C5_Determinism ==
    \A i \in 1..Len(log) :
        (i <= Len(prevLog) /\ \A j \in 1..i : log[j].call = prevLog[j].call)
            => log[i].result = prevLog[i].result

C5_Witness ==
    /\ Len(log) > 1
    /\ Len(prevLog) = Len(log)
    /\ log[1].result = Returned(<<"a">>)
    /\ log[Len(log)].result = Returned(<<"a", "a">>)

\* C6 (as claimed): a call performs at most `attempts` iterations.
C6_AtMostAttempts == iter <= call.attempts

\* C6 (amended): a call of generate or generate_suffix begins at most
\* max(1, attempts) iterations of its loop, and when the loop runs out
\* exactly that many were begun.
C6_AtMostMaxOneAttempts ==
    /\ iter <= (IF call.attempts >= 1 THEN call.attempts ELSE 1)
    /\ (pc = "idle" /\ phase # 0 /\ raw = NoneVal /\ result.value # NoneVal)
         => iter = (IF call.attempts >= 1 THEN call.attempts ELSE 1)
    /\ (pc = "idle" /\ result.kind = "Exhausted")
         => iter = (IF call.attempts >= 1 THEN call.attempts ELSE 1)

C6_Witness ==
    /\ pc = "idle"
    /\ call.attempts = 0
    /\ iter = 1
    /\ result.kind = "Exhausted"

\* C7 (as claimed): a generate call that does not raise returns a string.
C7_ReturnsString ==
    (GenerateEnded /\ result.kind = "return") => result.value # NoneVal

\* The tags of the last aggregation: the call's tags, or the anchor of the
\* grammar type.
AggregatedInput ==
    IF call.op = "generate" THEN call.tags
    ELSE AnchorTags(morphology[call.grammar_type])

Aggregated ==
    \/ call.op = "generate" /\ call.tags.kind # "other"
    \/ call.op = "generate_suffix" /\ ~NoMorphDef(call.grammar_type)

\* the input without the tags that are not in the ontology
WithoutMissing(tags_input) ==
    LET keep == {i \in DOMAIN tags_input.tags :
                    tags_input.tags[i] \in DOMAIN ontology}
        Pick(seq) == [i \in 1..Cardinality(keep) |->
                         seq[CHOOSE k \in keep :
                                 Cardinality({m \in keep : m <= k}) = i]]
    IN [kind |-> tags_input.kind, tags |-> Pick(tags_input.tags),
        mults |-> IF tags_input.kind = "dict" THEN Pick(tags_input.mults)
                  ELSE <<>>]

C9_SuffixDegrades ==
    SuffixEnded =>
        /\ result.kind = "return"
        /\ call.grammar_type \notin DOMAIN morphology
             => (result.value = <<"a">> /\ agg = NoAgg /\ draws = 0
                   /\ missing_tags = missing0)
        /\ ~accepted => result.value = <<"a">>

C9_Witness ==
    /\ SuffixEnded
    /\ call.grammar_type = "past"
    /\ iter = MaxAttempts
    /\ result.value = <<"a">>

\* C10 (as claimed): a generate call that returns adds exactly one entry to
\* the lexicon, from the returned value to itself; every other call leaves
\* the lexicon as it was.
C10_LexiconFrame ==
    pc = "idle" =>
        IF call.op = "generate" /\ result.kind = "return"
        THEN /\ result.value \notin DOMAIN lex0
             /\ lexicon = DictSet(lex0, result.value, result.value)
        ELSE lexicon = lex0

\* The mapping that gives each name of a list the multiplier 1.
UnitMapping(names) ==
    LET keys == DictKeysOfList(names, <<>>)
    IN DictInput(keys, [i \in DOMAIN keys |-> 1])

C12_LoadedSections ==
    /\ ~file.exists
         => /\ ~engine.constructed
            /\ call.op # "none" => (call.op = "__init__"
                                      /\ result = Raised("ConfigNotFound"))
    /\ (file.exists /\ call.op # "none")
         => LET doc == file.document
                defs == IF "definitions" \in DOMAIN doc
                        THEN doc.definitions ELSE EmptyDict
            IN /\ engine.constructed
               /\ "constraints" \notin DOMAIN doc => constraints_raw = EmptyDict
               /\ "orthography" \notin DOMAIN doc => orthography = EmptyDict
               /\ "ontology" \notin DOMAIN doc => ontology = EmptyDict
               /\ "definitions" \notin DOMAIN doc => definitions = EmptyDict
               /\ "morphology" \notin DOMAIN definitions
               /\ DOMAIN definitions = (DOMAIN defs) \ {"morphology"}
               /\ \A k \in DOMAIN definitions : definitions[k] = defs[k]
               /\ morphology = IF "morphology" \in DOMAIN defs
                               THEN defs.morphology ELSE EmptyDict
               /\ DOMAIN agg.pools \subseteq (DOMAIN definitions) \cup {"any"}

C12_Witness ==
    /\ engine.constructed
    /\ "ontology" \notin DOMAIN file.document
    /\ "definitions" \in DOMAIN file.document
    /\ "morphology" \in DOMAIN file.document.definitions
    /\ morphology = config.definitions.morphology
    /\ call.op = "_aggregate"
    /\ agg.pools # EmptyDict

\* C13 (as claimed): a generate call with the tag verb (fixed template CV,
\* sounds C and V, weight 1, no rule) that returns, returns a word of two
\* phonemes, the first of class C and the second of class V.
C13_OnePhonemePerSlot ==
    (GenerateEnded /\ call.tags = DictInput(<<"verb">>, <<1>>)
       /\ result.kind = "return")
        => /\ Len(raw) = Len(<<"C", "V">>)
           /\ Len(result.value) = Len(<<"C", "V">>)
           /\ raw[1] \in Range(definitions["C"])
           /\ raw[2] \in Range(definitions["V"])

\* C14 (as claimed): the spelling groups an aggregation returns hold no
\* group twice, and when the configuration has a group named default, that
\* group is in the list and is its first element.
C14_SpellingOrderDeduplicated ==
    Aggregated =>
        /\ \A i, j \in DOMAIN agg.spelling_order :
               i # j => agg.spelling_order[i] # agg.spelling_order[j]
        /\ "default" \in DOMAIN orthography
             => (agg.spelling_order # <<>>
                   /\ agg.spelling_order[1] = "default")

\* The pools as accumulated from the tags, before the safety net.
AccumulatedPools ==
    AggregateTags([pools |-> EmptyDict, shapes_weights |-> EmptyDict,
                   rules_enabled |-> <<>>, spelling_order |-> <<>>,
                   missing_tags |-> missing0],
                  Normalize(call.tags)).pools

\* C15 (as claimed): the aggregated pools are the pools accumulated from the
\* tags whenever a tag has contributed a sound; when none has, they give
\* weight 1 to every phoneme of the classes C and V and hold nothing else.
C15_SafetyNetOnlyWithoutSounds ==
    (call.op = "_aggregate" /\ call.tags.kind # "other")
        => IF AccumulatedPools # EmptyDict
           THEN agg.pools = AccumulatedPools
           ELSE agg.pools =
                    [c \in {"C", "V"} |->
                        [p \in Range(definitions[c]) |-> 1]]

IsPrefix(a, b) == Len(a) <= Len(b) /\ SubSeq(b, 1, Len(a)) = a

\* The candidate of the attempt passed the constraints and its spelled form
\* is a lexicon key.
KnownCleanCandidate ==
    /\ word # NoneVal
    /\ ~ViolatesConstraints(word, agg.rules_enabled)
    /\ ApplyOrthography(word, agg.spelling_order) \in DOMAIN lexicon

\* C16: when the spelled form of a constraint-clean candidate is already a
\* lexicon key, generate stays in the attempt and keeps the expanded shape
\* (and only then does it do so); it chooses and expands a second shape
\* onto the end of the first, and when the fill of the compound shape is a
\* word that is not a lexicon key, it records and returns that word as
\* filled.
C16_CompoundAfterKnownWord ==
    [][ /\ (phase = 1 /\ pc = "check" /\ KnownCleanCandidate)
             => /\ phase' = 2
                /\ pc' = "choose"
                /\ shape' = shape
                /\ Len(shape) = Len(word)
                /\ iter' = iter
                /\ lexicon' = lexicon
        /\ (phase # 2 /\ phase' = 2)
             => (phase = 1 /\ pc = "check" /\ KnownCleanCandidate)
        /\ (phase = 2 /\ pc \in {"choose", "expand"})
             => /\ IsPrefix(shape, shape')
                /\ phase' = 2
                /\ iter' = iter
                /\ lexicon' = lexicon
        /\ (phase = 2 /\ pc = "fill")
             => (shape' = shape /\ phase' = 2 /\ iter' = iter)
        /\ (phase = 2 /\ pc = "check" /\ word # NoneVal
              /\ word \notin DOMAIN lexicon)
             => /\ Len(word) = Len(shape)
                /\ pc' = "idle"
                /\ result' = Returned(word)
                /\ lexicon' = DictSet(lexicon, word, word)
                /\ iter' = iter
      ]_vars

C16_Witness ==
    /\ GenerateEnded
    /\ phase = 2
    /\ ReturnedWord
    /\ result.value \in DOMAIN lexicon
    /\ \A t \in DOMAIN agg.shapes_weights : Len(result.value) > Len(t)

\* The effective weight of item i of a list or dict input.
EffectiveWeight(tags_input, i) ==
    LET item == Normalize(tags_input)[i]
    IN FloatMul(DictGetOr(ontology[item[1]], "weight", 1), item[2])

\* The items of the input that name an ontology tag of effective weight <= 0.
Weightless(tags_input) ==
    {i \in DOMAIN Normalize(tags_input) :
        /\ Normalize(tags_input)[i][1] \in DOMAIN ontology
        /\ EffectiveWeight(tags_input, i) <= 0}

\* The dict input of the items of the input outside of drop.
WithoutItems(tags_input, drop) ==
    LET items == Normalize(tags_input)
        keep == (DOMAIN items) \ drop
        Pick == [i \in 1..Cardinality(keep) |->
                    items[CHOOSE k \in keep :
                              Cardinality({m \in keep : m <= k}) = i]]
    IN DictInput([i \in DOMAIN Pick |-> Pick[i][1]],
                 [i \in DOMAIN Pick |-> Pick[i][2]])

\* C17: an aggregation returns the pools, shape weights, rules and spelling
\* groups, and leaves the missing-tag counts, that it does for the same input
\* without any one, or without all, of its tags of effective weight <= 0.
C17_WeightlessTagSkipped ==
    (call.op = "_aggregate" /\ call.tags.kind # "other")
        => /\ \A i \in Weightless(call.tags) :
                  LET st == Aggregate(WithoutItems(call.tags, {i}), missing0)
                  IN agg = AggOf(st) /\ missing_tags = st.missing_tags
           /\ LET st == Aggregate(WithoutItems(call.tags,
                                               Weightless(call.tags)),
                                  missing0)
              IN agg = AggOf(st) /\ missing_tags = st.missing_tags

C17_Witness ==
    /\ call.op = "_aggregate"
    /\ call.tags = DictInput(<<"wild", "zero">>, <<0, 1>>)
    /\ Weightless(call.tags) = {1, 2}
    /\ agg.rules_enabled = <<>>
    /\ agg.spelling_order = <<>>
    /\ agg.shapes_weights = EmptyDict

\* The phonemes a sound contribution stands for: those of the class it
\* names, or itself.
SoundsOf(entry) ==
    IF entry \in DOMAIN definitions THEN definitions[entry] ELSE <<entry>>

\* The buckets a phoneme is put in: its classes, or "any" when it has none.
BucketsOf(phon) ==
    LET classes == {c \in DOMAIN definitions :
                       \E k \in DOMAIN definitions[c] :
                           definitions[c][k] = phon}
    IN IF classes = {} THEN {"any"} ELSE classes

\* Every phoneme of every sound contribution of every processed item of the
\* input, with the item's effective weight.
Contributions(tags_input) ==
    LET items == Normalize(tags_input)
        processed == {i \in DOMAIN items :
                         /\ items[i][1] \in DOMAIN ontology
                         /\ EffectiveWeight(tags_input, i) > 0}
        Entries(i) == DictGetOr(ontology[items[i][1]], "add_sounds", <<>>)
    IN UNION {UNION {{[item |-> i, entry |-> j, at |-> k,
                       phon |-> SoundsOf(Entries(i)[j])[k],
                       w |-> EffectiveWeight(tags_input, i)]
                        : k \in DOMAIN SoundsOf(Entries(i)[j])}
                       : j \in DOMAIN Entries(i)}
                 : i \in processed}

RECURSIVE SumOfWeights(_)
SumOfWeights(cs) ==
    IF cs = {} THEN 0
    ELSE LET c == CHOOSE c \in cs : TRUE
         IN c.w + SumOfWeights(cs \ {c})

\* In every bucket of a contributed phoneme, the phoneme's weight is the sum
\* of the weights of its contributions.
ContributedPools(tags_input) ==
    LET cs == Contributions(tags_input)
    IN [b \in UNION {BucketsOf(c.phon) : c \in cs} |->
           [p \in {c.phon : c \in {d \in cs : b \in BucketsOf(d.phon)}} |->
               SumOfWeights({c \in cs : c.phon = p})]]

\* C18: the aggregated pools are, up to the safety net, the contributed
\* pools: each phoneme of a contributed class, and each contributed literal
\* that names no class, gains the tag's effective weight in the bucket of
\* every class it belongs to, or in "any" alone when it belongs to none.
C18_SoundsGoToEveryClass ==
    (call.op = "_aggregate" /\ call.tags.kind # "other")
        => agg.pools = SafetyNet(ContributedPools(call.tags))

C18_Witness ==
    /\ call.op = "_aggregate"
    /\ call.tags = DictInput(<<"wild", "fire">>, <<1, 1>>)
    /\ agg.pools = [any |-> [x |-> 1], C |-> [k |-> 3], K |-> [k |-> 3],
                    V |-> [a |-> 2]]

\* The orders in which the n items of a mapping can be listed.
Orders(n) == {f \in [1..n -> 1..n] : \A i, j \in 1..n : i # j => f[i] # f[j]}

\* The mapping of the input with its items listed in the order f.
Reordered(tags_input, f) ==
    LET items == Normalize(tags_input)
    IN DictInput([i \in DOMAIN items |-> items[f[i]][1]],
                 [i \in DOMAIN items |-> items[f[i]][2]])

\* Every shape contribution of every processed item of the input, with the
\* item's effective weight.
ShapeContributions(tags_input) ==
    LET items == Normalize(tags_input)
        processed == {i \in DOMAIN items :
                         /\ items[i][1] \in DOMAIN ontology
                         /\ EffectiveWeight(tags_input, i) > 0}
        Entries(i) == DictGetOr(ontology[items[i][1]], "add_shapes", <<>>)
    IN UNION {{[item |-> i, entry |-> j, shape |-> Entries(i)[j],
                w |-> EffectiveWeight(tags_input, i)]
                 : j \in DOMAIN Entries(i)} : i \in processed}

\* The aggregation of the running call gave the pools and shape weights of
\* every reordering of its input.
OrderIndependent ==
    \A f \in Orders(Len(Normalize(call.tags))) :
        LET st == Aggregate(Reordered(call.tags, f), missing0)
        IN /\ st.pools = agg.pools
           /\ st.shapes_weights = agg.shapes_weights

\* The aggregation of the running call gave each contributed shape the sum
\* of the effective weights contributed to it.
ShapeWeightsAreSums ==
    LET cs == ShapeContributions(call.tags)
    IN agg.shapes_weights =
           [t \in {c.shape : c \in cs} |->
               SumOfWeights({c \in cs : c.shape = t})]

\* Sums of the effective weights of the input are exact in floating point.
ExactWeights(tags_input) ==
    \A i \in DOMAIN Normalize(tags_input) :
        Normalize(tags_input)[i][1] \in DOMAIN ontology
            => EffectiveWeight(tags_input, i) < Huge

\* C19 (as claimed): aggregation gives the same pools and the same shape
\* weights for every order of the items of its input.
C19_OrderIndependent ==
    (call.op = "_aggregate" /\ call.tags.kind # "other") => OrderIndependent

\* C19 (amended): for inputs whose effective weights add up exactly in
\* floating point, aggregation gives the same pools and the same shape
\* weights for every order of the items of its input, and a shape's weight
\* is the sum of the effective weights of the processed tags that
\* contribute it.
C19_OrderIndependentWhenExact ==
    (call.op = "_aggregate" /\ call.tags.kind # "other"
       /\ ExactWeights(call.tags))
        => (OrderIndependent /\ ShapeWeightsAreSums)

C19_Witness ==
    /\ call.op = "_aggregate"
    /\ call.tags = DictInput(<<"wild", "fire", "noun">>, <<1, 1, 1>>)
    /\ agg.shapes_weights[<<"(", "C", ")", "V">>] = 2
    /\ agg.rules_enabled = <<"no_a", "no_ta", "broken", "absent">>

\* The phonemes of the pool of a slot symbol and of the "any" pool.
SlotCandidates(ch) ==
    (DOMAIN DictGetOr(agg.pools, ch, EmptyDict))
        \cup (DOMAIN DictGetOr(agg.pools, "any", EmptyDict))

\* The weight of a candidate: its weight in the slot's pool plus its weight
\* in the "any" pool.
SlotWeight(ch, p) ==
    DictGetOr(DictGetOr(agg.pools, ch, EmptyDict), p, 0)
        + DictGetOr(DictGetOr(agg.pools, "any", EmptyDict), p, 0)

\* C20: _fill_shape returns None exactly when some symbol of the shape has
\* no phoneme in its own pool nor in the "any" pool; otherwise it returns one
\* phoneme per symbol, in shape order, each the weighted choice its draw
\* makes among the symbol's candidates in sorted order, a candidate's weight
\* being the sum of its weights in the two pools.
C20_FillShape ==
    (call.op = "_fill_shape" /\ pc = "check")
        => IF \E i \in DOMAIN shape : SlotCandidates(shape[i]) = {}
           THEN word = NoneVal
           ELSE /\ word # NoneVal
                /\ Len(word) = Len(shape)
                /\ \A i \in DOMAIN shape :
                       LET cands == SortedChars(SlotCandidates(shape[i]))
                       IN word[i] =
                              Choice(cands,
                                     [k \in DOMAIN cands |->
                                         SlotWeight(shape[i], cands[k])],
                                     tape[i])

C20_Witness ==
    /\ call.op = "_fill_shape"
    /\ pc = "check"
    /\ shape = <<"C", "V", "X">>
    /\ agg.pools = [C |-> [t |-> 1, x |-> 1], any |-> [x |-> 2, a |-> 1]]
    /\ word = <<"x", "a", "x">>

\* ---------------------------------------------------------------- C21

\* The starts of the occurrences of frm that str.replace replaces: each
\* matches, no two overlap, and any other match overlaps an earlier one.
MatchStarts(s, frm) ==
    {i \in 1..(Len(s) - Len(frm) + 1) : SubSeq(s, i, i + Len(frm) - 1) = frm}

ReplacedStarts(s, frm) ==
    CHOOSE P \in SUBSET MatchStarts(s, frm) :
        /\ \A p, q \in P : p < q => p + Len(frm) <= q
        /\ \A q \in MatchStarts(s, frm) \ P :
               \E p \in P : p < q /\ q < p + Len(frm)

RECURSIVE Pieces(_, _, _, _, _)
Pieces(s, frm, to, P, i) ==
    IF i > Len(s) THEN <<>>
    ELSE (IF i \in P THEN to
          ELSE IF \E p \in P : p < i /\ i < p + Len(frm) THEN <<>>
          ELSE <<s[i]>>) \o Pieces(s, frm, to, P, i + 1)

\* The rules of the groups in list order, without the groups the section
\* does not have and the rules with an empty 'from'.
RECURSIVE EffectiveRules(_)
EffectiveRules(groups) ==
    IF groups = <<>> THEN <<>>
    ELSE (IF Head(groups) \in DOMAIN orthography
          THEN SelectSeq(orthography[Head(groups)],
                         LAMBDA r : r.from # <<>>)
          ELSE <<>>) \o EffectiveRules(Tail(groups))

RECURSIVE Spelled(_, _)
Spelled(w, rules) ==
    IF rules = <<>> THEN w
    ELSE Spelled(Pieces(w, Head(rules).from, Head(rules).to,
                        ReplacedStarts(w, Head(rules).from), 1),
                 Tail(rules))

\* C21: _apply_orthography returns the word after the rules of the
\* activated groups, group by group in list order and rule by rule in the
\* group's order, each rule replacing every occurrence of its non-empty
\* 'from' in the current string once; a group without rules in the
\* configuration and a rule with an empty 'from' change nothing, and an
\* empty group list returns the word unchanged.
C21_OrthographyInOrder ==
    (pc = "idle" /\ call.op = "_apply_orthography") =>
        /\ result = Returned(Spelled(word,
                                     EffectiveRules(agg.spelling_order)))
        /\ agg.spelling_order = <<>> => result = Returned(word)
        /\ (\A i \in DOMAIN agg.spelling_order :
               agg.spelling_order[i] \in {"blank", "empty", "none"})
           => result = Returned(word)

C21_Witness ==
    /\ pc = "idle"
    /\ call.op = "_apply_orthography"
    /\ agg.spelling_order = <<"chain", "grow">>
    /\ word = <<"k", "a">>
    /\ result = Returned(<<"t", "a">>)

\* ---------------------------------------------------------------- C22

\* The morphology entry of the suffix call.
SuffixEntry == morphology[call.grammar_type]

\* C22: a suffix generate_suffix returns from its loop is the orthographized
\* form of a fill of the morphology entry's own shape, one phoneme of the
\* slot's candidates per symbol, from the pools aggregated from the entry's
\* anchor alone, whatever shapes the anchor adds; the fill matches no compiled
\* pattern of the rules the anchor activates.
C22_SuffixFromAnchorAlone ==
    (SuffixEnded /\ accepted) =>
        /\ ~NoMorphDef(call.grammar_type)
        /\ agg.pools = SafetyNet(ContributedPools(AnchorTags(SuffixEntry)))
        /\ LET anchor == DictGetOr(SuffixEntry, "anchor", "")
           IN agg.rules_enabled =
                  IF anchor \in DOMAIN ontology
                  THEN DictGetOr(ontology[anchor], "add_rules", <<>>)
                  ELSE <<>>
        /\ Len(raw) = Len(SuffixShape(SuffixEntry))
        /\ \A i \in DOMAIN raw :
               raw[i] \in SlotCandidates(SuffixShape(SuffixEntry)[i])
        /\ \A r \in Range(agg.rules_enabled) \cap DOMAIN constraints_raw :
               \A k \in DOMAIN constraints_raw[r] :
                   constraints_raw[r][k].compiles
                       => ~Search(constraints_raw[r][k].pattern, raw)
        /\ result = Returned(ApplyOrthography(raw, agg.spelling_order))

C22_Witness ==
    /\ SuffixEnded
    /\ accepted
    /\ call.grammar_type = "agent"
    /\ <<"(", "C", ")", "V">> \in DOMAIN agg.shapes_weights
    /\ iter = 2
    /\ raw = <<"k", "a">>
    /\ result = Returned(<<"c", "a">>)

\* ---------------------------------------------------------------- C28

\* The shape string of the suffix call's morphology entry.
EntryShape == DictGetOr(SuffixEntry, "shape", <<"V">>)

\* The symbols of the entry's shape that have no pool of their own.
Poolless ==
    {i \in DOMAIN EntryShape :
        DictGetOr(agg.pools, EntryShape[i], EmptyDict) = EmptyDict}

\* C28: generate_suffix takes every character of the morphology shape for a
\* slot and expands no optional segment: a suffix returned from its loop has
\* one phoneme per character of the shape string, and a shape with a
\* parenthesis, or any other symbol without a pool, gives the fallback "a"
\* on every call unless the "any" bucket holds a phoneme.
C28_ShapeCharactersAreSlots ==
    (SuffixEnded /\ ~NoMorphDef(call.grammar_type)) =>
        /\ accepted => Len(raw) = Len(EntryShape)
        /\ (/\ Poolless # {}
            /\ DictGetOr(agg.pools, "any", EmptyDict) = EmptyDict)
           => (~accepted /\ result = Returned(<<"a">>))
        /\ (\E i \in DOMAIN EntryShape : EntryShape[i] \in {"(", ")"})
           => Poolless # {}

C28_Witness ==
    /\ SuffixEnded
    /\ accepted
    /\ call.grammar_type = "wildp"
    /\ EntryShape = <<"(", "C", ")">>
    /\ raw = <<"x", "k", "x">>
    /\ result = Returned(<<"x", "c", "x">>)

\* ---------------------------------------------------------------- C23

\* The positions of the opening parentheses of a template.
Opens(t) == {i \in DOMAIN t : t[i] = "("}

\* The opening parenthesis of the segment position i lies in, or 0.
OpenOf(t, i) ==
    IF \E j \in 1..i : t[j] = "(" /\ \A k \in (j + 1)..i : t[k] # ")"
    THEN CHOOSE j \in 1..i : t[j] = "(" /\ \A k \in (j + 1)..i : t[k] # ")"
    ELSE 0

\* The template without its parentheses and without the content of the
\* segments outside of keep, from position i on.
RECURSIVE Variant(_, _, _)
Variant(t, keep, i) ==
    IF i > Len(t) THEN <<>>
    ELSE (IF t[i] \in {"(", ")"} THEN <<>>
          ELSE IF OpenOf(t, i) = 0 \/ OpenOf(t, i) \in keep THEN <<t[i]>>
          ELSE <<>>) \o Variant(t, keep, i + 1)

Compiling(n) ==
    SelectSeq(file.document.constraints[n],
              LAMBDA item : item.pattern # <<>> /\ item.compiles)

\* No compiled pattern of an activated rule occurs in w.
MatchesNoPattern(w) ==
    \A r \in Range(agg.rules_enabled) \cap DOMAIN file.document.constraints :
        \A k \in DOMAIN Compiling(r) : ~Search(Compiling(r)[k].pattern, w)

\* C24 (as claimed): compiling the constraints never fails the
\* configuration: the constructor returns an engine whose compiled set holds,
\* for each rule with a pattern that compiles, the patterns that compile, in
\* order, and no other rule; and generate_suffix rejects no fill in which no
\* compiled pattern of an activated rule occurs, whatever rule names without
\* compiled patterns are activated.
C24_CompilationNeverFails ==
    /\ [](call.op # "none" =>
             /\ engine.constructed
             /\ DOMAIN constraints
                    = {n \in DOMAIN file.document.constraints :
                          Compiling(n) # <<>>}
             /\ \A n \in DOMAIN constraints : constraints[n] = Compiling(n))
    /\ [][(pc = "check" /\ phase = 3 /\ word # NoneVal
             /\ MatchesNoPattern(word))
            => (accepted' /\ pc' = "idle"
                  /\ result' = Returned(ApplyOrthography(
                                            word, agg.spelling_order)))]_vars

\* ---------------------------------------------------------------- C25

\* Whether instance id was constructed with a seed.
WithSeed(id) == IF id = 1 THEN seeded ELSE other.seed # "None"

\* C25 (as claimed): two instances in a process are independent: a step of
\* the running instance changes neither the lexicon nor the missing-tag
\* counts of the other, the construction of the second instance changes
\* neither those of the first nor, when the first has a seed, the place of
\* the first in its stream, and an instance with a seed that is resumed
\* finds the stream where it left it.
C25_InstancesIndependent ==
    [][ /\ (other.constructed /\ other'.id = other.id)
             => /\ other'.lexicon = other.lexicon
                /\ other'.missing_tags = other.missing_tags
        /\ (~other.constructed /\ other'.constructed)
             => /\ lexicon' = lexicon
                /\ missing_tags' = missing_tags
                /\ WithSeed(3 - other.id) => pos' = pos
        /\ (other.constructed /\ other'.id # other.id)
             => /\ lexicon' = other.lexicon
                /\ missing_tags' = other.missing_tags
                /\ WithSeed(other.id) => pos = other.pos ]_vars

\* ---------------------------------------------------------------- C26

\* Every rule name of every processed item of the input, with the place of
\* the item in the input and of the name in the tag's add_rules.
RuleContributions(tags_input) ==
    LET items == Normalize(tags_input)
        processed == {i \in DOMAIN items :
                         /\ items[i][1] \in DOMAIN ontology
                         /\ EffectiveWeight(tags_input, i) > 0}
        Names(i) == DictGetOr(ontology[items[i][1]], "add_rules", <<>>)
    IN UNION {{[item |-> i, at |-> k, name |-> Names(i)[k]]
                  : k \in DOMAIN Names(i)} : i \in processed}

\* Contribution c comes before contribution d.
Before(c, d) == c.item < d.item \/ (c.item = d.item /\ c.at < d.at)

\* C26: the activated rules an aggregation returns hold each name once at
\* most, hold exactly the names contributed by the tags of the ontology
\* with an effective weight above zero, and list them in the order of
\* their first contribution.
C26_RulesOnceInFirstOrder ==
    (call.op = "_aggregate" /\ call.tags.kind # "other") =>
        LET cs == RuleContributions(call.tags)
            rules == agg.rules_enabled
            First(n) == CHOOSE c \in cs :
                            c.name = n /\ \A d \in cs :
                                              d.name = n => ~Before(d, c)
        IN /\ \A i, j \in DOMAIN rules : i # j => rules[i] # rules[j]
           /\ Range(rules) = {c.name : c \in cs}
           /\ \A i, j \in DOMAIN rules :
                  i < j => Before(First(rules[i]), First(rules[j]))

C26_Witness ==
    /\ call.op = "_aggregate"
    /\ call.tags = DictInput(<<"wild", "noun">>, <<1, 1>>)
    /\ agg.rules_enabled = <<"no_a", "no_ta", "broken", "absent">>

\* ---------------------------------------------------------------- C27

\* C27: a non-empty string generate returns was not a key of the lexicon
\* before the call and is one after it, and the keys of the lexicon before
\* the call stay keys with their values: no non-empty word is returned twice
\* on one instance.
C27_ReturnedWordIsNew ==
    (GenerateEnded /\ ReturnedWord /\ result.value # <<>>) =>
        /\ result.value \notin DOMAIN lex0
        /\ result.value \in DOMAIN lexicon
        /\ lexicon[result.value] = result.value
        /\ \A k \in DOMAIN lex0 : k \in DOMAIN lexicon /\ lexicon[k] = lex0[k]

C27_Witness ==
    /\ GenerateEnded
    /\ ReturnedWord
    /\ result.value # <<>>
    /\ phase = 2
    /\ Cardinality(DOMAIN lex0) = 2
    /\ Cardinality(DOMAIN lexicon) = 3

\* ---------------------------------------------------------------- C29

\* C29: every weight an aggregation stores in a phoneme pool or in the
\* shape weights is above zero, so in generate and generate_suffix the
\* weights a shape is chosen by, and the weights of the candidates of a slot
\* with candidates, are above zero, and their total is never zero.
C29_StoredWeightsPositive ==
    /\ \A b \in DOMAIN agg.pools :
           \A p \in DOMAIN agg.pools[b] : agg.pools[b][p] > 0
    /\ \A s \in DOMAIN agg.shapes_weights : agg.shapes_weights[s] > 0
    /\ pc = "choose" =>
           /\ DOMAIN agg.shapes_weights # {}
           /\ \A s \in DOMAIN agg.shapes_weights :
                  Max(agg.shapes_weights[s], 0) > 0
    /\ (pc = "fill" /\ Len(out) < Len(shape)) =>
           \A p \in SlotCandidates(shape[Len(out) + 1]) :
               SlotWeight(shape[Len(out) + 1], p) > 0

C29_Witness ==
    /\ pc = "fill"
    /\ call.op = "generate"
    /\ call.tags = DictInput(<<"noun", "fire">>, <<1, 1>>)
    /\ shape = <<"C", "V">>
    /\ Len(out) = 1
    /\ SlotWeight("V", "a") = 2

\* ---------------------------------------------------------------- C30

====
